---- MODULE Spec2Model ----
(***************************************************************************)
(* pg-schema-migrate: the migration workflow of src/main.go as a state     *)
(* machine.  One process runs runSchemaMigration once: option parsing,     *)
(* configuration, connection validation, then performSchemaMigration       *)
(* (directories, export, backup, dry-run report or drop/create/apply,      *)
(* rollback script).  Every external collaborator (PostgreSQL servers,     *)
(* pg_dump, psql, the terminal, the filesystem) answers                    *)
(* nondeterministically with success or failure.                           *)
(***************************************************************************)
EXTENDS Integers, Sequences, FiniteSets, TLC

VARIABLES
    flags,        \* the command line: mode, dryRun, noBackup, includeRoles, sourceSSL, destSSL
    pc,           \* position of the process in runSchemaMigration / performSchemaMigration
    options,      \* *MigrationOptions built by parseMigrationOptions (NoOptions before)
    dest,         \* destConfig of runSchemaMigration: "nil" or "set"
    validation,   \* outcome of the two pings: [source, dest] -> "none" | "ok" | "err"
    calls,        \* history of the steps invoked and the server/file operations performed
    destDb,       \* the destination database on the destination server
    destDb0,      \* the destination database when the run started
    dirs,         \* directories created by createDirectories
    files,        \* files of the output directory: kind -> "none" | "partial" | "complete"
    backupFile,   \* local variable backupFile of performSchemaMigration ("" or the path)
    exportResult, \* outcome of exportSchema: "none" | "ok" | "err"
    backupResult, \* outcome of createDestinationBackup:
                  \* "none" | "existsErr" | "skipped" | "dumpErr" | "ok"
    recreateResult, \* outcome of recreateDestinationDatabase:
                  \* "none" | "dropErr" | "dropped" | "createErr" | "ok"
    warnings,     \* the [WARNING] lines logged
    err,          \* the [ERROR] line logged before os.Exit(1) ("" when none)
    exitCode,     \* exit status of the process; -1 while it is still running
    env,          \* the process environment: PGPASSWORD, PGSSLMODE ->
                  \* "unset" | "inherited" (set before the tool started) | "tool"
    childEnv,     \* the environment the last pg_dump / psql was started with
    typed,        \* the passwords the operator types at the two prompts
    script,       \* what rollback.sh holds (NoScript while it was never written)
    now,          \* the wall clock, in seconds
    timestamp,    \* timestamp of performSchemaMigration: names the files of `files`
    others,       \* files of earlier runs under other timestamps: <<kind, ts, state>>
    past,         \* the runs that ended before this one, oldest first
    dumpArgs,     \* the arguments pg_dump was started with: [schema, backup] (<<>>: not run)
    conns,        \* the database connections of the tool itself, as the events
                  \* "open" / "close" in the order they happened
    database,     \* the destination database name given as --dest-db
    answer,       \* what the operator typed at the prompt of rollback.sh, as
                  \* characters (NotAsked while the script was not run)
    rollbackCmds, \* the psql commands rollback.sh issued, in order
    backupOf      \* what the backup file of each timestamp holds: the destination's
                  \* state when it was dumped ("none": no such file)

vars == <<flags, pc, options, dest, validation, calls, destDb, destDb0, dirs, files,
          backupFile, exportResult, backupResult, recreateResult, warnings,
          err, exitCode, env, childEnv, typed, script, now, timestamp, others, past,
          dumpArgs, backupOf, conns, database, answer, rollbackCmds>>

\* --------------------------------------------------------------- inputs

Modes == {"direct", "export", "bogus"}

SSLInputs == {"disable", "require", "verify-ca", "verify-full", "prefer", "foo"}

Flags == [mode : Modes, dryRun : BOOLEAN, noBackup : BOOLEAN,
          includeRoles : BOOLEAN, sourceSSL : SSLInputs, destSSL : SSLInputs]

DestDbStates == {"absent", "original", "empty", "partial", "migrated"}

FileKinds == {"schema", "backup", "rollback"}

NoOptions == [Mode |-> "", CreateBackup |-> FALSE, IncludeRoles |-> FALSE,
              IncludeData |-> FALSE, DryRun |-> FALSE]

BackupPath == "backup/backup_<db>_<ts>.sql"

\* --------------------------------------------------------------- helpers

validModes == {"disable", "require", "verify-ca", "verify-full"}

\* validateSSLMode, broken: accepts libpq's sslmode=prefer as well
validateSSLMode_Prefer(sslMode) == sslMode \in validModes \cup {"prefer"}

validateSSLMode(sslMode) == sslMode \in validModes

Called(op) == \E i \in 1..Len(calls) : calls[i] = op

IndexOf(op) == CHOOSE i \in 1..Len(calls) : calls[i] = op

Count(op) == Cardinality({i \in 1..Len(calls) : calls[i] = op})

\* databaseExists, broken: reports every database as present
databaseExists_Always == TRUE

\* the answer of databaseExists when its query succeeds: whether pg_database
\* holds the destination database
databaseExists == destDb /= "absent"

\* what a failed database/sql call reports through %v
DriverErrors == {"connection refused", "permission denied"}

\* the single wrapper performSchemaMigration puts around whatever error
\* recreateDestinationDatabase returns, from the drop or from the create
recreateErrMsg(cause) == "failed to recreate destination database: " \o cause

\* the two variables the tool hands credentials and SSL mode over in
EnvVars == {"PGPASSWORD", "PGSSLMODE"}

\* os.Setenv("PGPASSWORD", config.Password); os.Setenv("PGSSLMODE", config.SSLMode)
EnvDuringStep == [v \in EnvVars |-> "tool"]

\* the deferred calls, broken: PGPASSWORD is not unset
EnvAfterStep_Leak == [v \in EnvVars |-> IF v = "PGPASSWORD" THEN "tool" ELSE "unset"]

\* defer os.Unsetenv("PGPASSWORD"); defer os.Unsetenv("PGSSLMODE"): run on every
\* return of the step
EnvAfterStep == [v \in EnvVars |-> "unset"]

\* the runs of the tool that are followed, one after the other
MaxRuns == 2

\* the last second of the wall clock
MaxClock == 1

\* what the operator may type at a password prompt
Passwords == {"s3cret", "hunter2"}

\* the DatabaseConfig getDestConfig returns
DestConfig == [Host |-> "dest-host", Port |-> "5432", Username |-> "postgres",
               Password |-> typed.dest, Database |-> database, SSLMode |-> flags.destSSL]

\* rollback.sh before it is written
NoScript == [created |-> -1, PGPASSWORD |-> "", PGSSLMODE |-> "", host |-> "",
             port |-> "", user |-> "", database |-> "", backup |-> "", backupTs |-> -1]

\* the script template of generateRollbackScript, broken: the password is filled in
RollbackScript_WithPassword(config, path, ts) ==
    [created |-> now, PGPASSWORD |-> config.Password, PGSSLMODE |-> config.SSLMode,
     host |-> config.Host, port |-> config.Port, user |-> config.Username,
     database |-> config.Database, backup |-> path, backupTs |-> ts]

\* the script template of generateRollbackScript with its arguments filled in:
\* PGPASSWORD is exported empty; path names the backup file of timestamp ts
RollbackScript(config, path, ts) ==
    [created |-> now, PGPASSWORD |-> "", PGSSLMODE |-> config.SSLMode,
     host |-> config.Host, port |-> config.Port, user |-> config.Username,
     database |-> config.Database, backup |-> path, backupTs |-> ts]

SchemaPath == "schema_<db>_<ts>.sql"

\* the DatabaseConfig getSourceConfig returns
SourceConfig == [Host |-> "source-host", Port |-> "5432", Username |-> "postgres",
                 Password |-> typed.source, Database |-> "sourcedb",
                 SSLMode |-> flags.sourceSSL]

\* removeFromSlice: the elements of slice other than item, in their order
removeFromSlice(slice, item) == SelectSeq(slice, LAMBDA s : s /= item)

\* the pg_dump arguments of exportSchema, broken: --no-privileges always stays
exportArgs_KeepNoPrivileges(config, outputFile, opts) ==
    <<"-h", config.Host, "-p", config.Port, "-U", config.Username,
      "-d", config.Database, "-f", outputFile, "--schema-only", "--no-owner",
      "--no-privileges", "--verbose", "--no-password">>

\* the pg_dump arguments of exportSchema
exportArgs(config, outputFile, opts) ==
    LET args == <<"-h", config.Host, "-p", config.Port, "-U", config.Username,
                  "-d", config.Database, "-f", outputFile, "--schema-only", "--no-owner",
                  "--no-privileges", "--verbose", "--no-password">>
    IN IF opts.IncludeRoles THEN removeFromSlice(args, "--no-privileges") ELSE args

\* the pg_dump arguments of createDestinationBackup
backupArgs(config, backupPath, opts) ==
    LET args == <<"-h", config.Host, "-p", config.Port, "-U", config.Username,
                  "-d", config.Database, "-f", backupPath, "--verbose", "--no-password">>
    IN IF opts.IncludeData THEN args ELSE Append(args, "--schema-only")

\* sql.Open followed by defer db.Close(): the connection used for one ping or
\* for the statements of one function is closed when the function returns,
\* whatever it returns
sessionConn == <<"open", "close">>

\* the connection of databaseExists, broken: db.Close() is never called
databaseExistsConn_Leak == <<"open">>

\* the connection of databaseExists: opened for the query, closed on return
databaseExistsConn == <<"open", "close">>

\* the destination database names an operator may give, and how each is spelt
DatabaseNames == {"shop_staging", "Shop", "shop-2"}

Spelling(name) ==
    CASE name = "shop_staging" -> <<"s", "h", "o", "p", "_", "s", "t", "a", "g", "i", "n", "g">>
      [] name = "Shop" -> <<"S", "h", "o", "p">>
      [] name = "shop-2" -> <<"s", "h", "o", "p", "-", "2">>

\* the longest answer typed at the prompt of rollback.sh
MaxAnswerLen == 4

AnswerChars == {"y", "e", "s", " ", "\\"}

Answers == UNION {[1..n -> AnswerChars] : n \in 0..MaxAnswerLen}

NotAsked == <<"-">>

Yes == <<"y", "e", "s">>

\* os.Exit(1) after logger.Error(msg)
Fatal(msg) ==
    /\ pc' = "exited"
    /\ exitCode' = 1
    /\ err' = msg

\* a nil-pointer dereference of destConfig: the Go runtime panics, exit status 2
NilPanic ==
    /\ pc' = "exited"
    /\ exitCode' = 2
    /\ err' = "panic: nil pointer dereference"

\* runSchemaMigration returns after logger.Success: exit status 0
ReturnSuccess ==
    /\ pc' = "exited"
    /\ exitCode' = 0
    /\ UNCHANGED err

InitAny ==
    /\ flags \in Flags
    /\ pc = "parseMigrationOptions"
    /\ options = NoOptions
    /\ dest = "nil"
    /\ validation = [source |-> "none", dest |-> "none"]
    /\ calls = <<>>
    /\ destDb0 \in {"absent", "original"}
    /\ destDb = destDb0
    /\ dirs = {}
    /\ files = [k \in FileKinds |-> "none"]
    /\ backupFile = ""
    /\ exportResult = "none"
    /\ backupResult = "none"
    /\ recreateResult = "none"
    /\ warnings = {}
    /\ err = ""
    /\ exitCode = -1
    /\ env \in [EnvVars -> {"unset", "inherited"}]
    /\ childEnv = [v \in EnvVars |-> "none"]
    /\ typed \in [{"source", "dest"} -> Passwords]
    /\ script = NoScript
    /\ now = 0
    /\ timestamp = 0
    /\ others = {}
    /\ past = <<>>
    /\ database \in DatabaseNames
    /\ answer = NotAsked
    /\ rollbackCmds = <<>>
    /\ conns = <<>>
    /\ dumpArgs = [schema |-> <<>>, backup |-> <<>>]
    /\ backupOf = [t \in 0..MaxClock |-> "none"]

\* the runs followed step by step: the destination database is shop_staging
\* (the tool's own steps pass the name on without looking into it)
Init ==
    /\ InitAny
    /\ database = "shop_staging"

\* ---------------------------------------------------------- configuration

\* parseMigrationOptions, and runSchemaMigration's exit when it fails
ParseMigrationOptions ==
    /\ pc = "parseMigrationOptions"
    /\ IF flags.mode /= "direct" /\ flags.mode /= "export"
       THEN /\ Fatal("Failed to parse options")
            /\ UNCHANGED options
       ELSE /\ options' = [Mode |-> flags.mode,
                           CreateBackup |-> ~flags.noBackup,
                           IncludeRoles |-> flags.includeRoles,
                           IncludeData |-> TRUE,
                           DryRun |-> flags.dryRun]
            /\ pc' = "getSourceConfig"
            /\ UNCHANGED <<exitCode, err>>
    /\ UNCHANGED <<env, childEnv>>
    /\ UNCHANGED <<typed, now, past>>
    /\ UNCHANGED <<timestamp, others>>
    /\ UNCHANGED <<script>>
    /\ UNCHANGED <<dumpArgs, backupOf>>
    /\ UNCHANGED <<conns>>
    /\ UNCHANGED <<database, answer, rollbackCmds>>
    /\ UNCHANGED <<flags, validation, dest, calls, destDb, destDb0, dirs, files, backupFile,
                   exportResult, backupResult, recreateResult, warnings>>

\* the test `options.Mode == "direct"` of runSchemaMigration, broken: always taken
IsDirectMode_Always == TRUE

\* the test `options.Mode == "direct"` of runSchemaMigration
IsDirectMode == options.Mode = "direct"

\* getSourceConfig: the SSL mode is validated, then the password is read
GetSourceConfig ==
    /\ pc = "getSourceConfig"
    /\ \E passwordRead \in BOOLEAN :
         IF ~validateSSLMode(flags.sourceSSL) \/ ~passwordRead
         THEN Fatal("Failed to get source config")
         ELSE /\ pc' = IF IsDirectMode THEN "getDestConfig" ELSE "validateSource"
              /\ UNCHANGED <<exitCode, err>>
    /\ UNCHANGED <<env, childEnv>>
    /\ UNCHANGED <<typed, now, past>>
    /\ UNCHANGED <<timestamp, others>>
    /\ UNCHANGED <<script>>
    /\ UNCHANGED <<dumpArgs, backupOf>>
    /\ UNCHANGED <<conns>>
    /\ UNCHANGED <<database, answer, rollbackCmds>>
    /\ UNCHANGED <<flags, validation, options, dest, calls, destDb, destDb0, dirs, files,
                   backupFile, exportResult, backupResult, recreateResult, warnings>>

\* getDestConfig (direct mode only): SSL mode, password, database-name prompt
GetDestConfig ==
    /\ pc = "getDestConfig"
    /\ \E inputRead \in BOOLEAN :
         IF ~validateSSLMode(flags.destSSL) \/ ~inputRead
         THEN /\ Fatal("Failed to get destination config")
              /\ UNCHANGED dest
         ELSE /\ dest' = "set"
              /\ pc' = "validateSource"
              /\ UNCHANGED <<exitCode, err>>
    /\ UNCHANGED <<env, childEnv>>
    /\ UNCHANGED <<typed, now, past>>
    /\ UNCHANGED <<timestamp, others>>
    /\ UNCHANGED <<script>>
    /\ UNCHANGED <<dumpArgs, backupOf>>
    /\ UNCHANGED <<conns>>
    /\ UNCHANGED <<database, answer, rollbackCmds>>
    /\ UNCHANGED <<flags, validation, options, calls, destDb, destDb0, dirs, files,
                   backupFile, exportResult, backupResult, recreateResult, warnings>>

\* ------------------------------------------------------------ validation

\* validateSourceConnection, broken: a failed ping does not stop the run
ValidateSourceConnection_Ignore ==
    /\ pc = "validateSource"
    /\ calls' = Append(calls, "validateSource")
    /\ conns' = conns \o sessionConn
    /\ \E ping \in BOOLEAN :
         /\ validation' = [validation EXCEPT !.source = IF ping THEN "ok" ELSE "err"]
         /\ pc' = IF IsDirectMode THEN "validateDest" ELSE "createDirectories"
         /\ UNCHANGED <<exitCode, err>>
    /\ UNCHANGED <<env, childEnv>>
    /\ UNCHANGED <<typed, now, past>>
    /\ UNCHANGED <<timestamp, others>>
    /\ UNCHANGED <<script>>
    /\ UNCHANGED <<dumpArgs, backupOf>>
    /\ UNCHANGED <<database, answer, rollbackCmds>>
    /\ UNCHANGED <<flags, options, dest, destDb, destDb0, dirs, files,
                   backupFile, exportResult, backupResult, recreateResult, warnings>>

\* validateSourceConnection, called directly (export mode) or first thing in
\* validateConnections (direct mode); a failure ends the process
ValidateSourceConnection ==
    /\ pc = "validateSource"
    /\ calls' = Append(calls, "validateSource")
    /\ conns' = conns \o sessionConn
    /\ \E ping \in BOOLEAN :
         /\ validation' = [validation EXCEPT !.source = IF ping THEN "ok" ELSE "err"]
         /\ IF ~ping
            THEN Fatal(IF IsDirectMode THEN "Connection validation failed"
                       ELSE "Source connection validation failed")
            ELSE /\ pc' = IF IsDirectMode THEN "validateDest" ELSE "createDirectories"
                 /\ UNCHANGED <<exitCode, err>>
    /\ UNCHANGED <<env, childEnv>>
    /\ UNCHANGED <<typed, now, past>>
    /\ UNCHANGED <<timestamp, others>>
    /\ UNCHANGED <<script>>
    /\ UNCHANGED <<dumpArgs, backupOf>>
    /\ UNCHANGED <<database, answer, rollbackCmds>>
    /\ UNCHANGED <<flags, options, dest, destDb, destDb0, dirs, files,
                   backupFile, exportResult, backupResult, recreateResult, warnings>>

\* the destination half of validateConnections, broken: a failed ping is ignored
ValidateDestination_Ignore ==
    /\ pc = "validateDest"
    /\ calls' = Append(calls, "validateDest")
    /\ conns' = conns \o sessionConn
    /\ \E ping \in BOOLEAN :
         /\ validation' = [validation EXCEPT !.dest = IF ping THEN "ok" ELSE "err"]
         /\ pc' = "createDirectories"
         /\ UNCHANGED <<exitCode, err>>
    /\ UNCHANGED <<env, childEnv>>
    /\ UNCHANGED <<typed, now, past>>
    /\ UNCHANGED <<timestamp, others>>
    /\ UNCHANGED <<script>>
    /\ UNCHANGED <<dumpArgs, backupOf>>
    /\ UNCHANGED <<database, answer, rollbackCmds>>
    /\ UNCHANGED <<flags, options, dest, destDb, destDb0, dirs, files,
                   backupFile, exportResult, backupResult, recreateResult, warnings>>

\* the destination half of validateConnections: connects to the server's
\* postgres database and pings it
ValidateDestination ==
    /\ pc = "validateDest"
    /\ calls' = Append(calls, "validateDest")
    /\ conns' = conns \o sessionConn
    /\ \E ping \in BOOLEAN :
         /\ validation' = [validation EXCEPT !.dest = IF ping THEN "ok" ELSE "err"]
         /\ IF ~ping
            THEN Fatal("Connection validation failed")
            ELSE /\ pc' = "createDirectories"
                 /\ UNCHANGED <<exitCode, err>>
    /\ UNCHANGED <<env, childEnv>>
    /\ UNCHANGED <<typed, now, past>>
    /\ UNCHANGED <<timestamp, others>>
    /\ UNCHANGED <<script>>
    /\ UNCHANGED <<dumpArgs, backupOf>>
    /\ UNCHANGED <<database, answer, rollbackCmds>>
    /\ UNCHANGED <<flags, options, dest, destDb, destDb0, dirs, files,
                   backupFile, exportResult, backupResult, recreateResult, warnings>>

\* ------------------------------------------------- performSchemaMigration

\* timestamp := time.Now().Format("20060102_150405"): the clock read to the
\* second.  A later second names schema and backup files that do not exist yet
\* (those of the earlier timestamp stay, in others); the same second names the
\* files already there
TakeTimestamp ==
    /\ timestamp' = now
    /\ IF now = timestamp
       THEN UNCHANGED <<files, others>>
       ELSE /\ others' = others \cup
                 {<<k, timestamp, files[k]>> : k \in {j \in {"schema", "backup"} :
                                                      files[j] /= "none"}}
            /\ files' = [files EXCEPT !["schema"] = "none", !["backup"] = "none"]

\* performSchemaMigration takes its timestamp, then createDirectories: MkdirAll of the output directory, then of the backup
\* directory when backups are enabled; created counts the calls that succeeded
CreateDirectories ==
    /\ pc = "createDirectories"
    /\ LET wanted == IF options.CreateBackup THEN <<"out", "out/backup">> ELSE <<"out">>
       IN \E created \in 0..Len(wanted) :
            /\ TakeTimestamp
            /\ dirs' = dirs \cup {wanted[i] : i \in 1..created}
            /\ IF created < Len(wanted)
               THEN Fatal("failed to create directories")
               ELSE /\ pc' = "exportSchema"
                    /\ UNCHANGED <<exitCode, err>>
    /\ UNCHANGED <<env, childEnv>>
    /\ UNCHANGED <<typed, now, past>>
    /\ UNCHANGED <<script>>
    /\ UNCHANGED <<dumpArgs, backupOf>>
    /\ UNCHANGED <<conns>>
    /\ UNCHANGED <<database, answer, rollbackCmds>>
    /\ UNCHANGED <<flags, validation, options, dest, calls, destDb, destDb0,
                   backupFile, exportResult, backupResult, recreateResult, warnings>>

\* the `if options.DryRun` branch of performSchemaMigration, broken: never taken
AfterBackup_NoDryRun == "drop"

\* where performSchemaMigration goes once the backup block is over
AfterBackup == IF options.DryRun THEN "dryRun" ELSE "drop"

\* the `if options.CreateBackup` block of performSchemaMigration, broken: skipped
AfterExport_SkipBackup == AfterBackup

\* where performSchemaMigration goes once the export succeeded
AfterExport == IF options.CreateBackup THEN "backup" ELSE AfterBackup

\* exportSchema, broken: the error of pg_dump is not returned
ExportSchema_Continue ==
    /\ pc = "exportSchema"
    /\ calls' = Append(calls, "exportSchema")
    /\ dumpArgs' = [dumpArgs EXCEPT !.schema = exportArgs(SourceConfig, SchemaPath, options)]
    /\ UNCHANGED backupOf
    /\ childEnv' = EnvDuringStep
    /\ env' = EnvAfterStep
    /\ \E dumped \in BOOLEAN, left \in {"none", "partial"} :
         /\ exportResult' = IF dumped THEN "ok" ELSE "err"
         /\ files' = [files EXCEPT !["schema"] = IF dumped THEN "complete"
                                                ELSE IF left = "partial" THEN left ELSE @]
         /\ pc' = AfterExport
         /\ UNCHANGED <<exitCode, err>>
    /\ UNCHANGED <<typed, now, past>>
    /\ UNCHANGED <<timestamp, others>>
    /\ UNCHANGED <<script>>
    /\ UNCHANGED <<conns>>
    /\ UNCHANGED <<database, answer, rollbackCmds>>
    /\ UNCHANGED <<flags, validation, options, dest, destDb, destDb0, dirs,
                   backupFile, backupResult, recreateResult, warnings>>

\* Step 1: exportSchema runs pg_dump --schema-only on the source; a failure is
\* fatal and may leave a partial file behind
ExportSchema ==
    /\ pc = "exportSchema"
    /\ calls' = Append(calls, "exportSchema")
    /\ dumpArgs' = [dumpArgs EXCEPT !.schema = exportArgs(SourceConfig, SchemaPath, options)]
    /\ UNCHANGED backupOf
    /\ childEnv' = EnvDuringStep
    /\ env' = EnvAfterStep
    /\ \E dumped \in BOOLEAN, left \in {"none", "partial"} :
         IF dumped
         THEN /\ exportResult' = "ok"
              /\ files' = [files EXCEPT !["schema"] = "complete"]
              /\ pc' = AfterExport
              /\ UNCHANGED <<exitCode, err>>
         ELSE /\ exportResult' = "err"
              /\ files' = [files EXCEPT !["schema"] = IF left = "partial" THEN left ELSE @]
              /\ Fatal("failed to export schema")
    /\ UNCHANGED <<typed, now, past>>
    /\ UNCHANGED <<timestamp, others>>
    /\ UNCHANGED <<script>>
    /\ UNCHANGED <<conns>>
    /\ UNCHANGED <<database, answer, rollbackCmds>>
    /\ UNCHANGED <<flags, validation, options, dest, destDb, destDb0, dirs,
                   backupFile, backupResult, recreateResult, warnings>>

\* createDestinationBackup as called from Step 2, broken: its error is returned
\* by performSchemaMigration instead of being logged
CreateDestinationBackup_Fatal ==
    /\ pc = "backup"
    /\ IF dest = "nil"
       THEN /\ NilPanic
            /\ UNCHANGED <<conns, calls, files, backupFile, backupResult, warnings, env, childEnv,
                           dumpArgs, backupOf>>
       ELSE /\ backupFile' = BackupPath
            /\ \E queried \in BOOLEAN, dumped \in BOOLEAN, left \in {"none", "partial"} :
                 IF ~queried
                 THEN /\ calls' = calls \o <<"createDestinationBackup", "databaseExists">>
                      /\ conns' = conns \o databaseExistsConn
                      /\ UNCHANGED <<env, childEnv, dumpArgs, backupOf>>
                      /\ backupResult' = "existsErr"
                      /\ Fatal("backup failed")
                      /\ UNCHANGED <<files, warnings>>
                 ELSE IF ~databaseExists
                 THEN /\ calls' = calls \o <<"createDestinationBackup", "databaseExists">>
                      /\ conns' = conns \o databaseExistsConn
                      /\ UNCHANGED <<env, childEnv, dumpArgs, backupOf>>
                      /\ backupResult' = "skipped"
                      /\ pc' = AfterBackup
                      /\ UNCHANGED <<files, warnings, exitCode, err>>
                 ELSE /\ calls' = calls \o <<"createDestinationBackup", "databaseExists",
                                             "pg_dump backup">>
                      /\ conns' = conns \o databaseExistsConn
                      /\ childEnv' = EnvDuringStep
                      /\ env' = EnvAfterStep
                      /\ dumpArgs' = [dumpArgs EXCEPT
                                        !.backup = backupArgs(DestConfig, BackupPath, options)]
                      /\ backupOf' = [backupOf EXCEPT ![timestamp] =
                                        IF dumped THEN destDb
                                        ELSE IF left = "partial" THEN "partial" ELSE @]
                      /\ IF dumped
                         THEN /\ files' = [files EXCEPT !["backup"] = "complete"]
                              /\ backupResult' = "ok"
                              /\ pc' = AfterBackup
                              /\ UNCHANGED <<warnings, exitCode, err>>
                         ELSE /\ files' = [files EXCEPT !["backup"] =
                                             IF left = "partial" THEN left ELSE @]
                              /\ backupResult' = "dumpErr"
                              /\ Fatal("backup failed")
                              /\ UNCHANGED warnings
    /\ UNCHANGED <<typed, now, past>>
    /\ UNCHANGED <<timestamp, others>>
    /\ UNCHANGED <<script>>
    /\ UNCHANGED <<database, answer, rollbackCmds>>
    /\ UNCHANGED <<flags, validation, options, dest, destDb, destDb0, dirs, exportResult,
                   recreateResult>>

\* Step 2 (taken when options.CreateBackup): the backup path is computed from
\* dest.Database, which panics on a nil dest; then createDestinationBackup checks
\* that the database exists and dumps it; its error is only logged
CreateDestinationBackup ==
    /\ pc = "backup"
    /\ IF dest = "nil"
       THEN /\ NilPanic
            /\ UNCHANGED <<conns, calls, files, backupFile, backupResult, warnings, env, childEnv,
                           dumpArgs, backupOf>>
       ELSE /\ backupFile' = BackupPath
            /\ pc' = AfterBackup
            /\ UNCHANGED <<exitCode, err>>
            /\ \E queried \in BOOLEAN, dumped \in BOOLEAN, left \in {"none", "partial"} :
                 IF ~queried
                 THEN /\ calls' = calls \o <<"createDestinationBackup", "databaseExists">>
                      /\ conns' = conns \o databaseExistsConn
                      /\ UNCHANGED <<env, childEnv, dumpArgs, backupOf>>
                      /\ backupResult' = "existsErr"
                      /\ warnings' = warnings \cup {"Backup creation failed (continuing)"}
                      /\ UNCHANGED files
                 ELSE IF ~databaseExists
                 THEN /\ calls' = calls \o <<"createDestinationBackup", "databaseExists">>
                      /\ conns' = conns \o databaseExistsConn
                      /\ UNCHANGED <<env, childEnv, dumpArgs, backupOf>>
                      /\ backupResult' = "skipped"
                      /\ UNCHANGED <<files, warnings>>
                 ELSE /\ calls' = calls \o <<"createDestinationBackup", "databaseExists",
                                             "pg_dump backup">>
                      /\ conns' = conns \o databaseExistsConn
                      /\ childEnv' = EnvDuringStep
                      /\ env' = EnvAfterStep
                      /\ dumpArgs' = [dumpArgs EXCEPT
                                        !.backup = backupArgs(DestConfig, BackupPath, options)]
                      /\ backupOf' = [backupOf EXCEPT ![timestamp] =
                                        IF dumped THEN destDb
                                        ELSE IF left = "partial" THEN "partial" ELSE @]
                      /\ IF dumped
                         THEN /\ files' = [files EXCEPT !["backup"] = "complete"]
                              /\ backupResult' = "ok"
                              /\ UNCHANGED warnings
                         ELSE /\ files' = [files EXCEPT !["backup"] =
                                             IF left = "partial" THEN left ELSE @]
                              /\ backupResult' = "dumpErr"
                              /\ warnings' = warnings \cup
                                               {"Backup creation failed (continuing)"}
    /\ UNCHANGED <<typed, now, past>>
    /\ UNCHANGED <<timestamp, others>>
    /\ UNCHANGED <<script>>
    /\ UNCHANGED <<database, answer, rollbackCmds>>
    /\ UNCHANGED <<flags, validation, options, dest, destDb, destDb0, dirs, exportResult,
                   recreateResult>>

\* the early return of generateRollbackScript
RollbackNoop == ~options.CreateBackup \/ backupFile = ""

\* generateRollbackScript: nothing when RollbackNoop, else rollback.sh is written
\* (written: ioutil.WriteFile succeeded; left: what a failed write leaves)
generateRollbackScript(written, left) ==
    IF RollbackNoop
    THEN /\ calls' = Append(calls, "generateRollbackScript")
         /\ UNCHANGED <<files, script>>
    ELSE /\ calls' = calls \o <<"generateRollbackScript", "write rollback.sh">>
         /\ files' = [files EXCEPT !["rollback"] =
                         IF written THEN "complete"
                         ELSE IF left = "partial" THEN "partial" ELSE @]
         /\ script' = IF written \/ left = "partial"
                      THEN RollbackScript(DestConfig, backupFile, timestamp)
                      ELSE script

\* the error generateRollbackScript returns, broken: a failed write returns nil
rollbackErr_Never(written) == FALSE

\* the error generateRollbackScript returns
rollbackErr(written) == ~RollbackNoop /\ ~written

\* the dry-run branch: the plan is logged (dest.Database panics on a nil dest)
\* and the result of generateRollbackScript is returned
DryRunReport ==
    /\ pc = "dryRun"
    /\ IF dest = "nil"
       THEN /\ NilPanic
            /\ UNCHANGED <<calls, files, script>>
       ELSE \E written \in BOOLEAN, left \in {"none", "partial"} :
              /\ generateRollbackScript(written, left)
              /\ IF rollbackErr(written)
                 THEN Fatal("failed to write rollback script")
                 ELSE ReturnSuccess
    /\ UNCHANGED <<env, childEnv>>
    /\ UNCHANGED <<typed, now, past>>
    /\ UNCHANGED <<timestamp, others>>
    /\ UNCHANGED <<dumpArgs, backupOf>>
    /\ UNCHANGED <<conns>>
    /\ UNCHANGED <<database, answer, rollbackCmds>>
    /\ UNCHANGED <<flags, validation, options, dest, destDb, destDb0, dirs, backupFile,
                   exportResult, backupResult, recreateResult, warnings>>

\* dropDatabaseIfExists, broken: a failed session termination is returned as
\* an error and the drop is not issued
DropDatabaseIfExists_TerminateFatal ==
    /\ pc = "drop"
    /\ IF dest = "nil"
       THEN /\ NilPanic
            /\ UNCHANGED <<conns, calls, destDb, recreateResult, warnings>>
       ELSE \E queried \in BOOLEAN, opened \in BOOLEAN,
               terminated \in BOOLEAN, dropped \in BOOLEAN, cause \in DriverErrors :
              IF ~queried
              THEN /\ calls' = Append(calls, "databaseExists")
                   /\ conns' = conns \o databaseExistsConn
                   /\ recreateResult' = "dropErr"
                   /\ Fatal(recreateErrMsg(cause))
                   /\ UNCHANGED <<destDb, warnings>>
              ELSE IF ~databaseExists
              THEN /\ calls' = Append(calls, "databaseExists")
                   /\ conns' = conns \o databaseExistsConn
                   /\ recreateResult' = "dropped"
                   /\ pc' = "create"
                   /\ UNCHANGED <<destDb, warnings, exitCode, err>>
              ELSE IF ~opened
              THEN /\ calls' = Append(calls, "databaseExists")
                   /\ conns' = conns \o databaseExistsConn
                   /\ recreateResult' = "dropErr"
                   /\ Fatal(recreateErrMsg(cause))
                   /\ UNCHANGED <<destDb, warnings>>
              ELSE IF ~terminated
              THEN /\ calls' = calls \o <<"databaseExists", "pg_terminate_backend">>
                   /\ conns' = conns \o databaseExistsConn \o sessionConn
                   /\ recreateResult' = "dropErr"
                   /\ Fatal(recreateErrMsg(cause))
                   /\ UNCHANGED <<destDb, warnings>>
              ELSE /\ calls' = calls \o <<"databaseExists", "pg_terminate_backend",
                                          "DROP DATABASE">>
                   /\ conns' = conns \o databaseExistsConn \o sessionConn
                   /\ UNCHANGED warnings
                   /\ IF dropped
                      THEN /\ destDb' = "absent"
                           /\ recreateResult' = "dropped"
                           /\ pc' = "create"
                           /\ UNCHANGED <<exitCode, err>>
                      ELSE /\ recreateResult' = "dropErr"
                           /\ Fatal(recreateErrMsg(cause))
                           /\ UNCHANGED destDb
    /\ UNCHANGED <<env, childEnv>>
    /\ UNCHANGED <<typed, now, past>>
    /\ UNCHANGED <<timestamp, others>>
    /\ UNCHANGED <<script>>
    /\ UNCHANGED <<dumpArgs, backupOf>>
    /\ UNCHANGED <<database, answer, rollbackCmds>>
    /\ UNCHANGED <<flags, validation, options, dest, destDb0, dirs, files, backupFile,
                   exportResult, backupResult>>

\* Step 3, first half: recreateDestinationDatabase calls dropDatabaseIfExists.
\* databaseExists reads config.Host first, which panics on a nil config.  The
\* sessions of an existing database are terminated (a failure is a warning) and
\* the database is dropped; an error of the existence check, of sql.Open or of
\* the drop is returned and is fatal
DropDatabaseIfExists ==
    /\ pc = "drop"
    /\ IF dest = "nil"
       THEN /\ NilPanic
            /\ UNCHANGED <<conns, calls, destDb, recreateResult, warnings>>
       ELSE \E queried \in BOOLEAN, opened \in BOOLEAN,
               terminated \in BOOLEAN, dropped \in BOOLEAN, cause \in DriverErrors :
              IF ~queried
              THEN /\ calls' = Append(calls, "databaseExists")
                   /\ conns' = conns \o databaseExistsConn
                   /\ recreateResult' = "dropErr"
                   /\ Fatal(recreateErrMsg(cause))
                   /\ UNCHANGED <<destDb, warnings>>
              ELSE IF ~databaseExists
              THEN /\ calls' = Append(calls, "databaseExists")
                   /\ conns' = conns \o databaseExistsConn
                   /\ recreateResult' = "dropped"
                   /\ pc' = "create"
                   /\ UNCHANGED <<destDb, warnings, exitCode, err>>
              ELSE IF ~opened
              THEN /\ calls' = Append(calls, "databaseExists")
                   /\ conns' = conns \o databaseExistsConn
                   /\ recreateResult' = "dropErr"
                   /\ Fatal(recreateErrMsg(cause))
                   /\ UNCHANGED <<destDb, warnings>>
              ELSE /\ calls' = calls \o <<"databaseExists", "pg_terminate_backend",
                                          "DROP DATABASE">>
                   /\ conns' = conns \o databaseExistsConn \o sessionConn
                   /\ warnings' = IF terminated THEN warnings
                                  ELSE warnings \cup {"Could not terminate all connections"}
                   /\ IF dropped
                      THEN /\ destDb' = "absent"
                           /\ recreateResult' = "dropped"
                           /\ pc' = "create"
                           /\ UNCHANGED <<exitCode, err>>
                      ELSE /\ recreateResult' = "dropErr"
                           /\ Fatal(recreateErrMsg(cause))
                           /\ UNCHANGED destDb
    /\ UNCHANGED <<env, childEnv>>
    /\ UNCHANGED <<typed, now, past>>
    /\ UNCHANGED <<timestamp, others>>
    /\ UNCHANGED <<script>>
    /\ UNCHANGED <<dumpArgs, backupOf>>
    /\ UNCHANGED <<database, answer, rollbackCmds>>
    /\ UNCHANGED <<flags, validation, options, dest, destDb0, dirs, files, backupFile,
                   exportResult, backupResult>>

\* createDatabase, broken: recreateDestinationDatabase drops its error
CreateDatabase_Continue ==
    /\ pc = "create"
    /\ calls' = Append(calls, "CREATE DATABASE")
    /\ conns' = conns \o sessionConn
    /\ \E created \in BOOLEAN :
         /\ destDb' = IF created THEN "empty" ELSE destDb
         /\ recreateResult' = IF created THEN "ok" ELSE "createErr"
         /\ pc' = "applySchema"
         /\ UNCHANGED <<exitCode, err>>
    /\ UNCHANGED <<env, childEnv>>
    /\ UNCHANGED <<typed, now, past>>
    /\ UNCHANGED <<timestamp, others>>
    /\ UNCHANGED <<script>>
    /\ UNCHANGED <<dumpArgs, backupOf>>
    /\ UNCHANGED <<database, answer, rollbackCmds>>
    /\ UNCHANGED <<flags, validation, options, dest, destDb0, dirs, files, backupFile,
                   exportResult, backupResult, warnings>>

\* Step 3, second half: createDatabase issues CREATE DATABASE; its error is
\* returned by recreateDestinationDatabase and is fatal
CreateDatabase ==
    /\ pc = "create"
    /\ calls' = Append(calls, "CREATE DATABASE")
    /\ conns' = conns \o sessionConn
    /\ \E created \in BOOLEAN, cause \in DriverErrors :
         IF created
         THEN /\ destDb' = "empty"
              /\ recreateResult' = "ok"
              /\ pc' = "applySchema"
              /\ UNCHANGED <<exitCode, err>>
         ELSE /\ recreateResult' = "createErr"
              /\ Fatal(recreateErrMsg(cause))
              /\ UNCHANGED destDb
    /\ UNCHANGED <<env, childEnv>>
    /\ UNCHANGED <<typed, now, past>>
    /\ UNCHANGED <<timestamp, others>>
    /\ UNCHANGED <<script>>
    /\ UNCHANGED <<dumpArgs, backupOf>>
    /\ UNCHANGED <<database, answer, rollbackCmds>>
    /\ UNCHANGED <<flags, validation, options, dest, destDb0, dirs, files, backupFile,
                   exportResult, backupResult, warnings>>

\* the report of a failed Step 4, broken: worded like the report of a failed Step 1
applyErrMsg_AsExport == "failed to export schema"

\* the report of a failed Step 4: "failed to apply schema: %v"
applyErrMsg == "failed to apply schema"

\* applySchema, broken: the error of psql is not returned
ApplySchema_Swallow ==
    /\ pc = "applySchema"
    /\ calls' = Append(calls, "applySchema")
    /\ childEnv' = EnvDuringStep
    /\ env' = EnvAfterStep
    /\ \E applied \in BOOLEAN, left \in {"empty", "partial"} :
         /\ destDb' = IF applied THEN "migrated" ELSE left
         /\ pc' = "rollbackScript"
         /\ UNCHANGED <<exitCode, err>>
    /\ UNCHANGED <<typed, now, past>>
    /\ UNCHANGED <<timestamp, others>>
    /\ UNCHANGED <<script>>
    /\ UNCHANGED <<dumpArgs, backupOf>>
    /\ UNCHANGED <<conns>>
    /\ UNCHANGED <<database, answer, rollbackCmds>>
    /\ UNCHANGED <<flags, validation, options, dest, destDb0, dirs, files, backupFile,
                   exportResult, backupResult, recreateResult, warnings>>

\* applySchema, broken: a failed psql is run a second time before giving up
ApplySchema_Retry ==
    /\ pc = "applySchema"
    /\ calls' = Append(calls, "applySchema")
    /\ childEnv' = EnvDuringStep
    /\ env' = EnvAfterStep
    /\ \E applied \in BOOLEAN, left \in {"empty", "partial"} :
         IF applied
         THEN /\ destDb' = "migrated"
              /\ pc' = "rollbackScript"
              /\ UNCHANGED <<exitCode, err>>
         ELSE /\ destDb' = left
              /\ IF ~Called("applySchema")
                 THEN UNCHANGED <<pc, exitCode, err>>
                 ELSE Fatal("failed to apply schema")
    /\ UNCHANGED <<typed, now, past>>
    /\ UNCHANGED <<timestamp, others>>
    /\ UNCHANGED <<script>>
    /\ UNCHANGED <<dumpArgs, backupOf>>
    /\ UNCHANGED <<conns>>
    /\ UNCHANGED <<database, answer, rollbackCmds>>
    /\ UNCHANGED <<flags, validation, options, dest, destDb0, dirs, files, backupFile,
                   exportResult, backupResult, recreateResult, warnings>>

\* Step 4: applySchema runs psql -f on the exported file; a failure is fatal and
\* leaves the recreated database empty or partly loaded
ApplySchema ==
    /\ pc = "applySchema"
    /\ calls' = Append(calls, "applySchema")
    /\ childEnv' = EnvDuringStep
    /\ env' = EnvAfterStep
    /\ \E applied \in BOOLEAN, left \in {"empty", "partial"} :
         IF applied
         THEN /\ destDb' = "migrated"
              /\ pc' = "rollbackScript"
              /\ UNCHANGED <<exitCode, err>>
         ELSE /\ destDb' = left
              /\ Fatal(applyErrMsg)
    /\ UNCHANGED <<typed, now, past>>
    /\ UNCHANGED <<timestamp, others>>
    /\ UNCHANGED <<script>>
    /\ UNCHANGED <<dumpArgs, backupOf>>
    /\ UNCHANGED <<conns>>
    /\ UNCHANGED <<database, answer, rollbackCmds>>
    /\ UNCHANGED <<flags, validation, options, dest, destDb0, dirs, files, backupFile,
                   exportResult, backupResult, recreateResult, warnings>>

\* Step 5, broken: the error of generateRollbackScript is returned
FinalRollbackScript_Fatal ==
    /\ pc = "rollbackScript"
    /\ \E written \in BOOLEAN, left \in {"none", "partial"} :
         /\ generateRollbackScript(written, left)
         /\ IF rollbackErr(written)
            THEN Fatal("failed to write rollback script")
            ELSE ReturnSuccess
    /\ UNCHANGED <<env, childEnv>>
    /\ UNCHANGED <<typed, now, past>>
    /\ UNCHANGED <<timestamp, others>>
    /\ UNCHANGED <<dumpArgs, backupOf>>
    /\ UNCHANGED <<conns>>
    /\ UNCHANGED <<database, answer, rollbackCmds>>
    /\ UNCHANGED <<flags, validation, options, dest, destDb, destDb0, dirs, backupFile,
                   exportResult, backupResult, recreateResult, warnings>>

\* Step 5: generateRollbackScript; its error is a warning, and
\* performSchemaMigration returns nil
FinalRollbackScript ==
    /\ pc = "rollbackScript"
    /\ \E written \in BOOLEAN, left \in {"none", "partial"} :
         /\ generateRollbackScript(written, left)
         /\ warnings' = IF rollbackErr(written)
                        THEN warnings \cup {"Failed to generate rollback script"}
                        ELSE warnings
    /\ ReturnSuccess
    /\ UNCHANGED <<env, childEnv>>
    /\ UNCHANGED <<typed, now, past>>
    /\ UNCHANGED <<timestamp, others>>
    /\ UNCHANGED <<dumpArgs, backupOf>>
    /\ UNCHANGED <<conns>>
    /\ UNCHANGED <<database, answer, rollbackCmds>>
    /\ UNCHANGED <<flags, validation, options, dest, destDb, destDb0, dirs, backupFile,
                   exportResult, backupResult, recreateResult>>

\* ------------------------------------------------------------ the process

Next ==
    \/ ParseMigrationOptions
    \/ GetSourceConfig
    \/ GetDestConfig
    \/ ValidateSourceConnection
    \/ ValidateDestination
    \/ CreateDirectories
    \/ ExportSchema
    \/ CreateDestinationBackup
    \/ DryRunReport
    \/ DropDatabaseIfExists
    \/ CreateDatabase
    \/ ApplySchema
    \/ FinalRollbackScript

Spec == Init /\ [][Next]_vars

\* ---------------------------------------------------- one run after another

\* what is kept of a run once its process has exited
ThisRun == [flags |-> flags, exitCode |-> exitCode, timestamp |-> timestamp,
            exportResult |-> exportResult, backupResult |-> backupResult,
            recreateResult |-> recreateResult, warnings |-> warnings, destDb |-> destDb]

\* the command lines of a later run: the same databases, mode and SSL settings
Rerun == {f \in Flags : /\ f.mode = flags.mode
                        /\ f.includeRoles = flags.includeRoles
                        /\ f.sourceSSL = flags.sourceSSL
                        /\ f.destSSL = flags.destSSL}

\* the operator starts the tool again once the process has exited: main builds
\* a new process whose variables are fresh, from a shell that sets neither
\* PGPASSWORD nor PGSSLMODE; the servers, the output directory and the clock,
\* which may or may not have reached the next second, are what they are
NewRun ==
    /\ pc = "exited"
    /\ Len(past) < MaxRuns - 1
    /\ past' = Append(past, ThisRun)
    /\ \E t \in now..MaxClock : now' = t
    /\ flags' \in Rerun
    /\ pc' = "parseMigrationOptions"
    /\ options' = NoOptions
    /\ dest' = "nil"
    /\ validation' = [source |-> "none", dest |-> "none"]
    /\ calls' = <<>>
    /\ destDb0' = destDb
    /\ backupFile' = ""
    /\ exportResult' = "none"
    /\ backupResult' = "none"
    /\ recreateResult' = "none"
    /\ warnings' = {}
    /\ err' = ""
    /\ exitCode' = -1
    /\ env' = [v \in EnvVars |-> "unset"]
    /\ childEnv' = [v \in EnvVars |-> "none"]
    /\ dumpArgs' = [schema |-> <<>>, backup |-> <<>>]
    /\ conns' = <<>>
    /\ UNCHANGED <<destDb, dirs, files, others, script, timestamp, typed, backupOf,
                   database, answer, rollbackCmds>>

\* the first run: valid SSL modes, an existing destination, a clean environment
InitRuns ==
    /\ Init
    /\ flags.sourceSSL = "require"
    /\ flags.destSSL = "require"
    /\ ~flags.includeRoles
    /\ destDb0 = "original"
    /\ env = [v \in EnvVars |-> "unset"]
    /\ typed = [source |-> "s3cret", dest |-> "hunter2"]

NextRuns ==
    \/ Next
    \/ NewRun

SpecRuns == InitRuns /\ [][NextRuns]_vars

\* ------------------------------------------------------- running rollback.sh

\* bash's `read` without -r, before the blanks are stripped: a backslash is
\* taken away and protects the character after it; one that ends the line is
\* taken away with the line end
Unescaped(line) ==
    LET RECURSIVE Rest(_)
        Rest(s) == IF s = <<>> THEN <<>>
                   ELSE IF Head(s) = "\\"
                        THEN IF Len(s) = 1 THEN <<>>
                             ELSE <<[c |-> s[2], lit |-> TRUE]>> \o Rest(SubSeq(s, 3, Len(s)))
                        ELSE <<[c |-> Head(s), lit |-> FALSE]>> \o Rest(Tail(s))
    IN Rest(line)

\* a blank that `read` strips at either end of the line
Blank(t) == t.c = " " /\ ~t.lit

\* `read -p "..." confirm`: the line typed, backslashes processed, blanks at
\* both ends stripped, assigned to the one variable
read(line) ==
    LET ts == Unescaped(line)
        kept == {i \in 1..Len(ts) : ~Blank(ts[i])}
    IN IF kept = {} THEN <<>>
       ELSE LET first == CHOOSE i \in kept : \A k \in kept : i <= k
                last == CHOOSE i \in kept : \A k \in kept : k <= i
            IN [i \in 1..(last - first + 1) |-> ts[first + i - 1].c]

\* a statement psql rejects with a syntax error
SyntaxError == <<>>

IdentifierLetters == {"s", "h", "o", "p", "t", "a", "g", "i", "n", "S"}

ToLower(c) == IF c = "S" THEN "s" ELSE c

\* the database an SQL statement names when the name stands in it unquoted, as
\* in the statements of rollback.sh: letters are folded to lower case, and a
\* name that is no plain identifier is a syntax error
unquotedIdentifier(chars) ==
    IF /\ chars /= <<>>
       /\ chars[1] \in IdentifierLetters \cup {"_"}
       /\ \A i \in 1..Len(chars) : chars[i] \in IdentifierLetters \cup {"_", "$", "2"}
    THEN [i \in 1..Len(chars) |-> ToLower(chars[i])]
    ELSE SyntaxError

\* the database an SQL statement names when the name stands in double quotes,
\* as in the tool's DROP DATABASE "%s" and CREATE DATABASE "%s", or is passed as
\* a parameter or as -d on a command line: the name as spelt
quotedIdentifier(chars) == chars

\* the database the tool's own statements work on: datname = $1 in
\* databaseExists, DROP DATABASE "%s" and CREATE DATABASE "%s"
ToolDatabase == quotedIdentifier(Spelling(DestConfig.Database))

\* the body of rollback.sh, broken: the commands run whatever was answered
ScriptCommands_NoGate(sc, confirm) ==
    <<[cmd |-> "DROP DATABASE IF EXISTS", db |-> unquotedIdentifier(Spelling(sc.database)),
       file |-> ""],
      [cmd |-> "CREATE DATABASE", db |-> unquotedIdentifier(Spelling(sc.database)),
       file |-> ""],
      [cmd |-> "psql -f", db |-> quotedIdentifier(Spelling(sc.database)),
       file |-> sc.backup]>>

\* the body of rollback.sh: if [ "$confirm" = "yes" ] then three psql commands
\* (the shell goes on to the next whatever the last returned), else none
ScriptCommands(sc, confirm) ==
    IF confirm = Yes
    THEN <<[cmd |-> "DROP DATABASE IF EXISTS",
            db |-> unquotedIdentifier(Spelling(sc.database)), file |-> ""],
           [cmd |-> "CREATE DATABASE",
            db |-> unquotedIdentifier(Spelling(sc.database)), file |-> ""],
           [cmd |-> "psql -f", db |-> quotedIdentifier(Spelling(sc.database)),
            file |-> sc.backup]>>
    ELSE <<>>

\* the destination database after the commands cmds, each of which may fail:
\* a command acts on it when it names it; the drop removes it, the create
\* makes it when it is absent, the restore loads the backup into it
AfterCommands(cmds, sc, dropped, created, restored) ==
    LET mine(i) == cmds[i].db = quotedIdentifier(Spelling(database))
        d1 == IF mine(1) /\ dropped THEN "absent" ELSE destDb
        d2 == IF mine(2) /\ created /\ d1 = "absent" THEN "empty" ELSE d1
    IN IF mine(3) /\ restored /\ d2 /= "absent" /\ backupOf[sc.backupTs] /= "none"
       THEN IF d2 = "empty" THEN backupOf[sc.backupTs] ELSE "partial"
       ELSE d2

\* the operator runs rollback.sh once the tool has exited, and answers its prompt
RunRollbackScript ==
    /\ pc = "exited"
    /\ files["rollback"] = "complete"
    /\ answer = NotAsked
    /\ \E line \in Answers, dropped \in BOOLEAN, created \in BOOLEAN, restored \in BOOLEAN :
         LET cmds == ScriptCommands(script, read(line))
         IN /\ answer' = line
            /\ rollbackCmds' = cmds
            /\ destDb' = IF cmds = <<>> THEN destDb
                         ELSE AfterCommands(cmds, script, dropped, created, restored)
    /\ UNCHANGED <<flags, pc, options, dest, validation, calls, destDb0, dirs, files,
                   backupFile, exportResult, backupResult, recreateResult, warnings,
                   err, exitCode, env, childEnv, typed, script, now, timestamp, others,
                   past, dumpArgs, backupOf, conns, database>>

\* the runs whose rollback.sh is then run: any destination name, valid SSL
\* modes, an existing destination, a clean environment
InitRollback ==
    /\ InitAny
    /\ flags.sourceSSL = "require"
    /\ flags.destSSL = "require"
    /\ ~flags.includeRoles
    /\ destDb0 = "original"
    /\ env = [v \in EnvVars |-> "unset"]
    /\ typed = [source |-> "s3cret", dest |-> "hunter2"]

NextRollback ==
    \/ Next
    \/ RunRollbackScript

SpecRollback == InitRollback /\ [][NextRollback]_vars

TypeOK ==
    /\ flags \in Flags
    /\ dest \in {"nil", "set"}
    /\ validation \in [{"source", "dest"} -> {"none", "ok", "err"}]
    /\ destDb \in DestDbStates
    /\ destDb0 \in DestDbStates
    /\ dirs \subseteq {"out", "out/backup"}
    /\ files \in [FileKinds -> {"none", "partial", "complete"}]
    /\ backupFile \in {"", BackupPath}
    /\ exportResult \in {"none", "ok", "err"}
    /\ backupResult \in {"none", "existsErr", "skipped", "dumpErr", "ok"}
    /\ recreateResult \in {"none", "dropErr", "dropped", "createErr", "ok"}
    /\ exitCode \in {-1, 0, 1, 2}
    /\ (pc = "exited") = (exitCode /= -1)
    /\ env \in [EnvVars -> {"unset", "inherited", "tool"}]
    /\ childEnv \in [EnvVars -> {"none", "unset", "inherited", "tool"}]
    /\ typed \in [{"source", "dest"} -> Passwords]
    /\ now \in 0..MaxClock
    /\ timestamp \in 0..now
    /\ others \subseteq ({"schema", "backup"} \X (0..MaxClock) \X {"partial", "complete"})
    /\ Len(past) < MaxRuns
    /\ DOMAIN dumpArgs = {"schema", "backup"}
    /\ conns \in Seq({"open", "close"})
    /\ database \in DatabaseNames
    /\ answer \in Answers \cup {NotAsked}
    /\ Len(rollbackCmds) \in {0, 3}
    /\ backupOf \in [0..MaxClock -> DestDbStates \cup {"none"}]

\* ------------------------------------------------------------ properties

\* the operations performed against the destination server
DestinationOps == {"validateDest", "databaseExists", "pg_dump backup",
                   "pg_terminate_backend", "DROP DATABASE", "CREATE DATABASE",
                   "applySchema"}

\* C1: in a run with mode = export, whatever the dry-run and backup flags, no
\* operation is performed against the destination server (no validation, no
\* existence check, no backup dump, no session termination, no drop, no create,
\* no apply) and the destination database stays as it was.
C1_ExportNeverTouchesDestination ==
    flags.mode = "export" =>
        /\ \A op \in DestinationOps : ~Called(op)
        /\ ~Called("createDestinationBackup")
        /\ destDb = destDb0

\* an export-mode run that got past a successful export and ended
C1_Witness ==
    /\ flags.mode = "export"
    /\ exportResult = "ok"
    /\ pc = "exited"

\* C2 (as claimed): an export-mode run whose source validation and export
\* succeeded stops right after the export, exits with status 0, and has
\* produced the schema file only.
C2_ExportStopsAfterExport ==
    (flags.mode = "export" /\ exportResult = "ok") =>
        /\ pc = "exited"
        /\ exitCode = 0
        /\ files = [k \in FileKinds |-> IF k = "schema" THEN "complete" ELSE "none"]

\* C3 (as claimed): for every mode and backup flag, a dry run never invokes
\* drop, create or apply, and a dry run that got past the export has, when it
\* stops, invoked the export and, with backups enabled, the destination backup
\* and the rollback-script generation.
C3_DryRunAllModes ==
    /\ options.DryRun =>
          /\ ~Called("DROP DATABASE")
          /\ ~Called("CREATE DATABASE")
          /\ ~Called("applySchema")
    /\ (options.DryRun /\ exportResult = "ok" /\ pc = "exited") =>
          /\ Called("exportSchema")
          /\ options.CreateBackup =>
                /\ Called("createDestinationBackup")
                /\ Called("generateRollbackScript")

\* C3 (amended): for every mode and backup flag, a dry run never invokes drop,
\* create or apply; in direct mode, a dry run that got past the export has,
\* when it stops, invoked the export and, with backups enabled, the destination
\* backup and the rollback-script generation.
C3_DryRunDirect ==
    /\ options.DryRun =>
          /\ ~Called("DROP DATABASE")
          /\ ~Called("CREATE DATABASE")
          /\ ~Called("applySchema")
          /\ destDb = destDb0
    /\ (options.DryRun /\ options.Mode = "direct" /\ exportResult = "ok"
          /\ pc = "exited") =>
          /\ Called("exportSchema")
          /\ options.CreateBackup =>
                /\ Called("createDestinationBackup")
                /\ Called("generateRollbackScript")

\* a direct dry run with backups that backed the destination up and stopped
C3_Witness ==
    /\ options.DryRun
    /\ options.Mode = "direct"
    /\ options.CreateBackup
    /\ backupResult = "ok"
    /\ Called("generateRollbackScript")
    /\ pc = "exited"

\* C4: applySchema is invoked only after recreateDestinationDatabase returned
\* success in the same run (drop-if-exists, then create, then apply); when the
\* drop or the create fails the run ends fatally and apply is never invoked.
C4_ApplyOnlyAfterRecreate ==
    /\ (pc = "applySchema" \/ Called("applySchema")) =>
          /\ recreateResult = "ok"
          /\ Called("CREATE DATABASE")
          /\ Called("DROP DATABASE") =>
                IndexOf("DROP DATABASE") < IndexOf("CREATE DATABASE")
    /\ Called("applySchema") => IndexOf("CREATE DATABASE") < IndexOf("applySchema")
    /\ recreateResult \in {"dropErr", "createErr"} =>
          /\ ~Called("applySchema")
          /\ pc = "exited"
          /\ exitCode = 1

\* apply was invoked in a run that dropped and created the destination
C4_Witness ==
    /\ Called("applySchema")
    /\ Called("DROP DATABASE")
    /\ recreateResult = "ok"

\* C5: a run that returned success has not left the destination dropped but not
\* recreated; in a successful run that is no dry run and issued the drop, the
\* create succeeded afterwards and the schema was applied.
C5_SuccessNeverLeavesDropped ==
    exitCode = 0 =>
        /\ ~(destDb = "absent" /\ destDb0 /= "absent")
        /\ (~options.DryRun /\ Called("DROP DATABASE")) =>
              /\ recreateResult = "ok"
              /\ Called("applySchema")
              /\ destDb = "migrated"

\* a successful run that dropped an existing destination
C5_Witness ==
    /\ exitCode = 0
    /\ destDb0 = "original"
    /\ Called("DROP DATABASE")
    /\ destDb = "migrated"

\* C6: when the schema export fails the run aborts fatally, no backup, drop,
\* create or apply is invoked, and the destination database is as it was when
\* the run started.
C6_ExportFailureLeavesDestination ==
    exportResult = "err" =>
        /\ pc = "exited"
        /\ exitCode = 1
        /\ err = "failed to export schema"
        /\ ~Called("DROP DATABASE")
        /\ ~Called("CREATE DATABASE")
        /\ ~Called("applySchema")
        /\ ~Called("createDestinationBackup")
        /\ destDb = destDb0

\* a direct run against an existing destination whose export failed
C6_Witness ==
    /\ exportResult = "err"
    /\ options.Mode = "direct"
    /\ ~options.DryRun
    /\ destDb0 = "original"

\* C7: the source connection is validated before any other server operation,
\* and when that validation fails the run aborts fatally having done nothing
\* else: no destination validation, export, backup, drop, create or apply.
C7_SourceValidatedFirst ==
    /\ calls /= <<>> => calls[1] = "validateSource"
    /\ Count("validateSource") <= 1
    /\ validation.source = "err" =>
          /\ calls = <<"validateSource">>
          /\ pc = "exited"
          /\ exitCode = 1
          /\ destDb = destDb0
          /\ files = [k \in FileKinds |-> "none"]

\* a direct run whose source ping failed
C7_Witness ==
    /\ validation.source = "err"
    /\ options.Mode = "direct"

\* C8: in direct mode the destination server is validated right after the
\* source and before any export, backup or mutating step, and when that
\* validation fails the run aborts fatally with none of them performed.
C8_DestValidatedBeforeWork ==
    /\ (options.Mode = "direct" /\ Len(calls) >= 2) =>
          /\ calls[1] = "validateSource"
          /\ calls[2] = "validateDest"
          /\ validation.source = "ok"
    /\ (options.Mode = "direct" /\ pc \notin {"parseMigrationOptions",
          "getSourceConfig", "getDestConfig", "validateSource", "validateDest",
          "exited"}) => validation.dest = "ok"
    /\ validation.dest = "err" =>
          /\ calls = <<"validateSource", "validateDest">>
          /\ pc = "exited"
          /\ exitCode = 1
          /\ destDb = destDb0
          /\ files = [k \in FileKinds |-> "none"]

\* a direct run whose destination ping failed after the source ping succeeded
C8_Witness ==
    /\ validation.dest = "err"
    /\ validation.source = "ok"

\* C9: in direct mode with backups enabled, a failure of the destination backup
\* (existence check or dump) is not fatal: the warning is logged and the run
\* goes on to the dry-run report or to the drop.
C9_BackupFailureNonFatal ==
    [][(pc = "backup" /\ backupResult' \in {"existsErr", "dumpErr"}) =>
          /\ options.Mode = "direct"
          /\ options.CreateBackup
          /\ "Backup creation failed (continuing)" \in warnings'
          /\ exitCode' = -1
          /\ pc' = IF options.DryRun THEN "dryRun" ELSE "drop"]_vars

\* the destination was dropped in a run whose backup dump had failed, so no
\* valid backup of it exists
C9_Witness ==
    /\ backupResult = "dumpErr"
    /\ files["backup"] /= "complete"
    /\ Called("DROP DATABASE")
    /\ destDb0 = "original"
    /\ destDb = "absent"

\* C10 (as claimed): generateRollbackScript does nothing (rollback.sh is not
\* written) whenever backups are disabled or the run produced no backup file,
\* which includes an absent destination database and a failed backup dump.
C10_RollbackNoopWithoutBackup ==
    (Called("generateRollbackScript")
       /\ (~options.CreateBackup \/ backupResult /= "ok")) =>
        /\ ~Called("write rollback.sh")
        /\ files["rollback"] = "none"

\* C11: in a direct run that is no dry run, with backups enabled and an absent
\* destination database, the backup step returns without running the dump tool
\* and without writing a backup file, and the run goes on to recreate (the
\* existence check and the create only: no session termination, no drop) and
\* to apply.
C11_AbsentDestinationSkipsBackup ==
    (options.Mode = "direct" /\ ~options.DryRun /\ options.CreateBackup
       /\ destDb0 = "absent" /\ backupResult \notin {"none", "existsErr"}) =>
        /\ backupResult = "skipped"
        /\ ~Called("pg_dump backup")
        /\ files["backup"] = "none"
        /\ "Backup creation failed (continuing)" \notin warnings
        /\ ~Called("pg_terminate_backend")
        /\ ~Called("DROP DATABASE")
        /\ pc \in {"drop", "create", "applySchema", "rollbackScript", "exited"}
        /\ pc = "exited" => Count("databaseExists") = 2
        /\ pc \in {"applySchema", "rollbackScript"} => Called("CREATE DATABASE")
        /\ pc = "rollbackScript" => Called("applySchema")

\* such a run ended with the schema applied to the newly created database
C11_Witness ==
    /\ options.Mode = "direct"
    /\ options.CreateBackup
    /\ destDb0 = "absent"
    /\ backupResult = "skipped"
    /\ Called("CREATE DATABASE")
    /\ destDb = "migrated"
    /\ exitCode = 0

\* every stage the run had to pass has succeeded: options, configuration,
\* validation, directories, export and, in a direct run that is no dry run,
\* recreate and apply; a dry-run report did not fail to write its rollback script
OverallSuccess ==
    /\ flags.mode \in {"direct", "export"}
    /\ validation.source = "ok"
    /\ flags.mode = "direct" => validation.dest = "ok"
    /\ "out" \in dirs
    /\ options.CreateBackup => "out/backup" \in dirs
    /\ exportResult = "ok"
    /\ (flags.mode = "direct" /\ ~options.DryRun) =>
          /\ recreateResult = "ok"
          /\ destDb = "migrated"
    /\ (options.DryRun /\ Called("write rollback.sh")) => files["rollback"] = "complete"

\* C12 (as claimed): the process exits with status 0 exactly when the run ended
\* in overall success (a successful dry-run report included), and with a
\* non-zero status whenever a stage failed fatally.
C12_ExitZeroIffSuccess ==
    pc = "exited" =>
        /\ (exitCode = 0) = OverallSuccess
        /\ ~OverallSuccess => exitCode \in {1, 2}

\* C13: in a direct run that is no dry run and in which recreate and apply
\* succeeded, a failure to write the rollback script is logged as a warning and
\* is not fatal: the run returns success and exits with status 0.
C13_RollbackFailureIsWarning ==
    (~options.DryRun /\ Called("write rollback.sh") /\ files["rollback"] /= "complete") =>
        /\ options.Mode = "direct"
        /\ recreateResult = "ok"
        /\ destDb = "migrated"
        /\ "Failed to generate rollback script" \in warnings
        /\ pc = "exited"
        /\ exitCode = 0
        /\ err = ""

\* a migrated destination whose rollback script could not be written
C13_Witness ==
    /\ ~options.DryRun
    /\ Called("applySchema")
    /\ destDb = "migrated"
    /\ Called("write rollback.sh")
    /\ files["rollback"] = "none"
    /\ pc = "exited"

\* everything a failed drop (nothing destroyed) can report
DropFailureReports == {recreateErrMsg(c) : c \in DriverErrors}

\* C14 (as claimed): when the create fails after a successful drop, the
\* destination is left absent and the run ends fatally with a report of its own,
\* one that no failure of the drop itself produces.
C14_CreateFailureReportedDistinctly ==
    (recreateResult = "createErr" /\ Called("DROP DATABASE")) =>
        /\ destDb = "absent"
        /\ pc = "exited"
        /\ exitCode = 1
        /\ err \notin DropFailureReports

\* the steps of a run
Steps == {"validateSource", "validateDest", "exportSchema", "createDestinationBackup",
          "pg_dump backup", "DROP DATABASE", "CREATE DATABASE", "applySchema",
          "generateRollbackScript", "write rollback.sh"}

\* the last operation the run performed
LastCall == calls[Len(calls)]

\* C15: nothing is retried: in one run each of source validation, destination
\* validation, export, backup, drop, create, apply and rollback-script
\* generation is invoked at most once, and a fatal failure ends the run at once,
\* the failed step being the last one invoked.
C15_NoRetry ==
    /\ \A op \in Steps : Count(op) <= 1
    /\ exitCode = 1 => pc = "exited"
    /\ validation.source = "err" => (exitCode = 1 /\ LastCall = "validateSource")
    /\ validation.dest = "err" => (exitCode = 1 /\ LastCall = "validateDest")
    /\ exportResult = "err" => (exitCode = 1 /\ LastCall = "exportSchema")
    /\ recreateResult = "dropErr" =>
          (exitCode = 1 /\ LastCall \in {"databaseExists", "DROP DATABASE"})
    /\ recreateResult = "createErr" => (exitCode = 1 /\ LastCall = "CREATE DATABASE")
    /\ (Called("applySchema") /\ destDb /= "migrated") =>
          (exitCode = 1 /\ LastCall = "applySchema")

\* a run that failed in apply after every earlier step had run once
C15_Witness ==
    /\ Called("applySchema")
    /\ destDb = "partial"
    /\ Called("DROP DATABASE")
    /\ Called("pg_dump backup")
    /\ exitCode = 1

\* the SSL modes the specification allows
SpecSSLModes == {"disable", "require", "verify-ca", "verify-full"}

\* the reports of a configuration error
ConfigErrors == {"Failed to parse options", "Failed to get source config",
                 "Failed to get destination config"}

\* C17 (as claimed): SSL-mode validation succeeds exactly for disable, require,
\* verify-ca and verify-full, and an invalid SSL mode given for the source or
\* for the destination makes the process abort with a configuration error and
\* a non-zero exit before any network connection is attempted.
C17_InvalidSSLAborts ==
    /\ \A s \in SSLInputs : validateSSLMode(s) = (s \in SpecSSLModes)
    /\ (flags.sourceSSL \notin SpecSSLModes \/ flags.destSSL \notin SpecSSLModes) =>
          /\ calls = <<>>
          /\ pc \in {"parseMigrationOptions", "getSourceConfig", "getDestConfig", "exited"}
          /\ pc = "exited" => (exitCode = 1 /\ err \in ConfigErrors)

\* C17 (amended): SSL-mode validation succeeds exactly for disable, require,
\* verify-ca and verify-full, and an invalid SSL mode given for the source, or
\* in direct mode for the destination, makes the process abort with a
\* configuration error and a non-zero exit before any network connection is
\* attempted.
C17_InvalidSSLAbortsWhereUsed ==
    /\ \A s \in SSLInputs : validateSSLMode(s) = (s \in SpecSSLModes)
    /\ (flags.sourceSSL \notin SpecSSLModes
          \/ (flags.mode = "direct" /\ flags.destSSL \notin SpecSSLModes)) =>
          /\ calls = <<>>
          /\ validation = [source |-> "none", dest |-> "none"]
          /\ pc \in {"parseMigrationOptions", "getSourceConfig", "getDestConfig", "exited"}
          /\ pc = "exited" => (exitCode = 1 /\ err \in ConfigErrors)

\* a direct run given --dest-ssl foo has stopped in getDestConfig
C17_Witness ==
    /\ flags.mode = "direct"
    /\ flags.sourceSSL \in SpecSSLModes
    /\ flags.destSSL = "foo"
    /\ pc = "exited"
    /\ err = "Failed to get destination config"

\* C16: PGPASSWORD and PGSSLMODE carry the tool's values only while the pg_dump
\* or psql of an export, backup or apply step runs; every such step, succeeded
\* or failed, leaves both unset, so between steps and when the run has ended
\* neither holds a value the tool put there.
C16_EnvClearedAfterSteps ==
    /\ \A v \in EnvVars : env[v] /= "tool"
    /\ (Called("exportSchema") \/ Called("pg_dump backup") \/ Called("applySchema")) =>
          /\ childEnv = [v \in EnvVars |-> "tool"]
          /\ env = [v \in EnvVars |-> "unset"]
    /\ ~(Called("exportSchema") \/ Called("pg_dump backup") \/ Called("applySchema")) =>
          /\ childEnv = [v \in EnvVars |-> "none"]
          /\ \A v \in EnvVars : env[v] \in {"unset", "inherited"}

\* a run ended by a failed apply, after an export and a failed backup dump
C16_Witness ==
    /\ exportResult = "ok"
    /\ backupResult = "dumpErr"
    /\ Called("applySchema")
    /\ exitCode = 1
    /\ childEnv["PGPASSWORD"] = "tool"
    /\ env["PGPASSWORD"] = "unset"

\* C19: rollback.sh, the one file the tool itself writes, holds no database
\* password: none of its text fields is a password an operator types, and its text
\* is the same whatever source or destination password was typed
C19_NoPasswordOnDisk ==
    files["rollback"] /= "none" =>
        /\ \A f \in DOMAIN script \ {"created", "backupTs"} : script[f] \notin Passwords
        /\ \A p \in Passwords :
             script = RollbackScript([DestConfig EXCEPT !.Password = p], backupFile, timestamp)

\* C19 witness: a run with a typed destination password wrote the whole script
C19_Witness ==
    /\ exitCode = 0
    /\ files["rollback"] = "complete"
    /\ typed.dest = "s3cret"
    /\ script.host = DestConfig.Host
    /\ script.PGPASSWORD = ""

\* a run that did everything: direct mode, no dry run, backup taken, exit 0
FullRun(r) ==
    /\ r.exitCode = 0
    /\ r.flags.mode = "direct"
    /\ ~r.flags.dryRun
    /\ ~r.flags.noBackup
    /\ r.backupResult = "ok"

\* the seconds whose schema export / destination backup is in the output directory
FilesOf(kind) ==
    {t \in 0..MaxClock : \/ t = timestamp /\ files[kind] = "complete"
                         \/ <<kind, t, "complete">> \in others}

\* C18: when the tool has run twice with the same command line and both runs
\* did everything, the output directory holds two schema exports and two
\* backups, and the destination is as the first run left it
C18_TwoRunsTwoFileSets ==
    (Len(past) = 1 /\ past[1].flags = flags /\ FullRun(past[1]) /\ FullRun(ThisRun)) =>
        /\ Cardinality(FilesOf("schema")) = 2
        /\ Cardinality(FilesOf("backup")) = 2
        /\ destDb = past[1].destDb

\* a direct run, not a dry run, with backups enabled, of a destination that
\* existed with content, which ended with exit status 0
SuccessfulFullRun ==
    /\ exitCode = 0
    /\ options.Mode = "direct"
    /\ ~options.DryRun
    /\ options.CreateBackup
    /\ destDb0 = "original"

\* the output directory holds exactly the schema export, the backup and
\* rollback.sh (which names that backup), and the destination holds the
\* source's structure in a database created anew
FullRunOutputs ==
    /\ files = [k \in FileKinds |-> "complete"]
    /\ others = {}
    /\ script = RollbackScript(DestConfig, BackupPath, timestamp)
    /\ destDb = "migrated"

SourceValidated == validation.source = "ok"

DestValidated == validation.dest = "ok"

SchemaExported == exportResult = "ok"

BackupAttempted == backupResult /= "none"

DryRunReported == options.DryRun /\ Called("generateRollbackScript")

Destroying == recreateResult /= "none" \/ pc = "create"

DestroyedAndRecreated == recreateResult = "ok"

SchemaApplied == Called("applySchema") /\ destDb = "migrated"

RollbackScriptWritten == ~options.DryRun /\ Called("generateRollbackScript")

\* C21: a direct-mode run enters its states in the order source validated,
\* destination validated, schema exported, backup attempted, then either the
\* dry-run report, which ends the run, or destination destroyed and recreated,
\* schema applied, rollback script written, which ends the run; the drop is
\* never issued before the export succeeded and, with backups enabled, the
\* backup was attempted
C21_StateOrder ==
    options.Mode = "direct" =>
        /\ DestValidated => SourceValidated /\ IndexOf("validateSource") < IndexOf("validateDest")
        /\ Called("exportSchema") => DestValidated /\ IndexOf("validateDest") < IndexOf("exportSchema")
        /\ BackupAttempted =>
              /\ SchemaExported
              /\ IndexOf("exportSchema") < IndexOf("createDestinationBackup")
        /\ (DryRunReported \/ pc = "dryRun" \/ Destroying) =>
              /\ SchemaExported
              /\ options.CreateBackup => BackupAttempted
        /\ DryRunReported => pc = "exited" /\ ~Destroying /\ ~Called("applySchema")
        /\ Destroying => ~options.DryRun
        /\ Called("DROP DATABASE") =>
              /\ IndexOf("exportSchema") < IndexOf("DROP DATABASE")
              /\ options.CreateBackup =>
                    IndexOf("createDestinationBackup") < IndexOf("DROP DATABASE")
        /\ Called("applySchema") => DestroyedAndRecreated
        /\ RollbackScriptWritten =>
              /\ SchemaApplied
              /\ IndexOf("applySchema") < IndexOf("generateRollbackScript")
              /\ pc = "exited"

\* C21 witness: a direct run with backups went through every state to the end
C21_Witness ==
    /\ options.Mode = "direct"
    /\ options.CreateBackup
    /\ BackupAttempted
    /\ Called("DROP DATABASE")
    /\ RollbackScriptWritten

\* C22: dropDatabaseIfExists does nothing to an absent database (no session
\* termination, no drop statement) and returns success; for a present one the
\* sessions are terminated right before the drop, a failed termination is a
\* warning after which the drop is still issued, and a failed existence check
\* or drop is returned, which ends the run
C22_DropIfExists ==
    /\ destDb0 = "absent" =>
          /\ ~Called("pg_terminate_backend")
          /\ ~Called("DROP DATABASE")
          /\ (recreateResult /= "none" /\ exitCode /= 1) => recreateResult /= "dropErr"
    /\ Called("pg_terminate_backend") =>
          /\ Called("DROP DATABASE")
          /\ IndexOf("DROP DATABASE") = IndexOf("pg_terminate_backend") + 1
          /\ destDb0 /= "absent"
    /\ Called("DROP DATABASE") => Called("pg_terminate_backend")
    /\ "Could not terminate all connections" \in warnings => Called("DROP DATABASE")
    /\ recreateResult = "dropErr" =>
          /\ pc = "exited"
          /\ exitCode = 1
          /\ destDb = destDb0
          /\ ~Called("CREATE DATABASE")

\* C22 witness: the termination failed, the drop was issued and succeeded, and
\* the run went on to its end
C22_Witness ==
    /\ "Could not terminate all connections" \in warnings
    /\ Called("DROP DATABASE")
    /\ recreateResult = "ok"
    /\ exitCode = 0

\* C23: when applySchema fails the run ends fatally with a report that is
\* neither the export-failure report nor the backup-failure report, and the
\* destination has been dropped and created anew: it exists and holds nothing
\* of its previous content
C23_ApplyFailureDistinct ==
    (Called("applySchema") /\ destDb /= "migrated") =>
        /\ pc = "exited"
        /\ exitCode = 1
        /\ err = "failed to apply schema"
        /\ err /= "failed to export schema"
        /\ err \notin warnings
        /\ err /= "Backup creation failed (continuing)"
        /\ recreateResult = "ok"
        /\ Called("CREATE DATABASE")
        /\ destDb \in {"empty", "partial"}

\* C23 witness: the apply failed on a destination that existed with content
C23_Witness ==
    /\ Called("applySchema")
    /\ destDb0 = "original"
    /\ destDb = "empty"
    /\ exitCode = 1

\* the arguments of a pg_dump invocation, as a set
ArgSet(args) == {args[i] : i \in 1..Len(args)}

\* C24: for every option combination the schema export asks pg_dump for
\* schema-only output without owner statements, and without privilege
\* statements exactly when include-roles is off; the destination backup is a
\* full dump, never schema-only
C24_DumpArguments ==
    /\ dumpArgs.schema /= <<>> =>
          /\ "--schema-only" \in ArgSet(dumpArgs.schema)
          /\ "--no-owner" \in ArgSet(dumpArgs.schema)
          /\ ("--no-privileges" \in ArgSet(dumpArgs.schema)) = ~flags.includeRoles
    /\ Called("exportSchema") => dumpArgs.schema /= <<>>
    /\ Called("pg_dump backup") => dumpArgs.backup /= <<>>
    /\ dumpArgs.backup /= <<>> =>
          /\ "--schema-only" \notin ArgSet(dumpArgs.backup)
          /\ "--data-only" \notin ArgSet(dumpArgs.backup)

\* C24 witness: a run with include-roles exported the schema and dumped the
\* destination
C24_Witness ==
    /\ flags.includeRoles
    /\ Called("exportSchema")
    /\ Called("pg_dump backup")
    /\ "--no-privileges" \notin ArgSet(dumpArgs.schema)
    /\ "--no-password" \in ArgSet(dumpArgs.backup)

\* the connections open after the first i events of conns
OpenAfter(i) ==
    Cardinality({j \in 1..i : conns[j] = "open"}) - Cardinality({j \in 1..i : conns[j] = "close"})

\* C25: every connection the tool opens is closed again on every path of the
\* operation that opened it: never more than one connection is open, and none
\* is open when a step has returned or the run has ended
C25_ConnectionsClosed ==
    /\ \A i \in 1..Len(conns) : OpenAfter(i) \in {0, 1}
    /\ OpenAfter(Len(conns)) = 0

\* C25 witness: a run that pinged both servers, checked the destination twice,
\* dropped it and then failed to create it
C25_Witness ==
    /\ Called("DROP DATABASE")
    /\ backupResult = "ok"
    /\ recreateResult = "createErr"
    /\ exitCode = 1
    /\ Len(conns) = 12

\* the commands of rollback.sh in their order: drop, create, restore from the
\* backup path the script records
DropCreateRestore ==
    /\ Len(rollbackCmds) = 3
    /\ rollbackCmds[1].cmd = "DROP DATABASE IF EXISTS"
    /\ rollbackCmds[2].cmd = "CREATE DATABASE"
    /\ rollbackCmds[3].cmd = "psql -f"
    /\ rollbackCmds[3].file = script.backup

\* C26 as stated: rollback.sh issues its commands only when the answer typed
\* is exactly yes, and then drop, create, restore in that order; for any other
\* answer it issues none and the destination stays as it was
C26_GateExactlyYes ==
    /\ rollbackCmds /= <<>> => answer = Yes /\ DropCreateRestore
    /\ answer \notin {NotAsked, Yes} => rollbackCmds = <<>>

\* C26, amended: rollback.sh issues its commands only when the answer, with
\* the blanks at its ends stripped and its backslashes taken away as `read`
\* does, is exactly yes, and then drop, create, restore in that order; for any
\* other answer, and so for any answer without blank or backslash other than
\* yes, it issues none
C26_GateYesAsRead ==
    /\ rollbackCmds /= <<>> => read(answer) = Yes /\ DropCreateRestore
    /\ (answer /= NotAsked /\ read(answer) /= Yes) => rollbackCmds = <<>>
    /\ (answer /= NotAsked /\ \A i \in 1..Len(answer) : answer[i] \notin {" ", "\\"}) =>
          (rollbackCmds /= <<>>) = (answer = Yes)
    /\ answer = Yes => DropCreateRestore

\* C26 witness: the operator answered yes and the three commands were issued
C26_Witness ==
    /\ answer = Yes
    /\ Len(rollbackCmds) = 3
    /\ rollbackCmds[3].file = BackupPath

\* C27: when a direct run that is no dry run and whose backup was created
\* ends in a fatal error after the destination was dropped (the create failed,
\* or the apply failed), rollback.sh for that run's backup has been written
C27_RollbackScriptAfterFatal ==
    (/\ options.Mode = "direct"
     /\ ~options.DryRun
     /\ backupResult = "ok"
     /\ Called("DROP DATABASE")
     /\ destDb /= destDb0
     /\ exitCode = 1) =>
        /\ files["rollback"] = "complete"
        /\ script = RollbackScript(DestConfig, backupFile, timestamp)

\* the runs so far, the one under way included
AllRuns == Append(past, ThisRun)

\* C28: after any sequence of runs into the same output directory that each
\* did everything, rollback.sh names the backup file that holds the destination
\* as it was before the first of them (the first destructive run)
C28_RollbackKeepsOriginalBackup ==
    (/\ pc = "exited"
     /\ \A i \in 1..Len(AllRuns) : FullRun(AllRuns[i])
     /\ files["rollback"] = "complete") =>
        backupOf[script.backupTs] = "original"

\* the case of C28 that holds: after the first such run rollback.sh names the
\* backup of the original destination
C28_FirstRunHolds ==
    (/\ pc = "exited"
     /\ past = <<>>
     /\ FullRun(ThisRun)
     /\ files["rollback"] = "complete") =>
        backupOf[script.backupTs] = "original"

\* C29: whatever the destination database is called, upper-case letters and
\* special characters included, the database rollback.sh drops and creates is
\* the one the tool's quoted DROP DATABASE and CREATE DATABASE statements and
\* its existence check work on
C29_ScriptTargetsSameDatabase ==
    rollbackCmds /= <<>> =>
        /\ rollbackCmds[1].db = ToolDatabase
        /\ rollbackCmds[2].db = ToolDatabase

\* the case of C29 that holds: a name of lower-case letters and underscores
C29_PlainNameHolds ==
    (rollbackCmds /= <<>> /\ database = "shop_staging") =>
        \A i \in 1..3 : rollbackCmds[i].db = ToolDatabase

\* C30: a failure of the rollback-script generation never makes a run fatal,
\* dry run or not: a run that got as far as generating rollback.sh, its export
\* (and backup, if enabled) done, ends with exit status 0 even when rollback.sh
\* could not be written
C30_RollbackFailureNeverFatal ==
    (Called("generateRollbackScript") /\ exportResult = "ok") =>
        /\ pc = "exited"
        /\ exitCode = 0

\* the case of C30 that holds: outside a dry run
C30_NonDryRunHolds ==
    (Called("generateRollbackScript") /\ ~options.DryRun) => exitCode = 0

\* C31: exportSchema, createDestinationBackup and applySchema each leave the
\* process environment as they found it: PGPASSWORD and PGSSLMODE hold after
\* the step, succeeded or failed, what they held before it
C31_EnvRestored ==
    [][(pc \in {"exportSchema", "backup", "applySchema"} /\ pc' /= pc) => env' = env]_vars

\* the case of C31 that holds: a variable that was not set before the step is
\* not set after it
C31_UnsetStaysUnset ==
    [][(pc \in {"exportSchema", "backup", "applySchema"} /\ pc' /= pc) =>
          \A v \in EnvVars : env[v] = "unset" => env'[v] = "unset"]_vars

====
